---- MODULE Spec2Model ----
(***************************************************************************)
(* Model of the resolver_types crate (src/src/lib.rs): the two resolver    *)
(* traits, Resolver (blocking) and AsyncResolver (suspend-capable), their  *)
(* default methods resolve(), clear_cache() and reload_system_config(),    *)
(* and the data vocabulary QueryType, Record, PriorityEntry, ResolveError. *)
(*                                                                         *)
(* The required methods resolve_specific and resolve_many have no body in  *)
(* this crate: a backend supplies them.  The model treats a resolve_many   *)
(* call as an environment step that completes with any value of its        *)
(* declared return type ResolveResult<Vec<Record>>.                        *)
(***************************************************************************)
EXTENDS Integers, Sequences, FiniteSets, TLC

VARIABLES
    pc,      \* per caller: "idle" | "created" | "awaiting" | "ready" | "done"
    op,      \* per caller: the default method being run, or "none"
    form,    \* per caller: "blocking" (Resolver) | "async" (AsyncResolver)
    calls,   \* per caller: backend methods called by the running default method
    reply,   \* per caller: what its resolve_many call returned, or None
    result,  \* per caller: what the default method returned, or None
    mxpc,    \* "start" | "built" | "read": a client building and reading a Record::MX
    mxIn,    \* the (priority, value) pairs the Record::MX was built from
    mxRec,   \* the Record::MX value
    mxOut    \* the (priority, value) pairs read back from mxRec

vars == <<pc, op, form, calls, reply, result, mxpc, mxIn, mxRec, mxOut>>
resolverVars == <<pc, op, form, calls, reply, result>>
mxVars == <<mxpc, mxIn, mxRec, mxOut>>

----------------------------------------------------------------------------
(* Bounds *)

\* number of callers sharing one resolver instance
NumCallers == 2
\* longest Vec<Record> a resolve_many call returns when callers run one at a time
MaxLen == 3
\* longest Vec<Record> a resolve_many call returns when callers run concurrently
MaxLenC == 1
\* longest Vec<PriorityEntry<IpAddr>> a client puts into a Record::MX
MaxEntries == 3

Callers == 1..NumCallers

SeqsUpTo(S, n) == UNION {[1..k -> S] : k \in 0..n}

----------------------------------------------------------------------------
(* Data vocabulary *)

None == [tag |-> "None"]

\* std::net::IpAddr: V4(..) | V6(..)
IpAddr_V4(a) == [family |-> "V4", addr |-> a]
IpAddr_V6(a) == [family |-> "V6", addr |-> a]
IpAddrs == {IpAddr_V4("192.0.2.1"), IpAddr_V6("::1")}

QueryType == {"AAAA", "A", "MX", "TXT"}

\* mutant: the priority is stored as the 16-bit unsigned MX preference
PriorityEntry_u16(priority, value) == [priority |-> priority % 65536, value |-> value]

\* struct PriorityEntry<T> { priority: isize, value: T }
PriorityEntry(priority, value) == [priority |-> priority, value |-> value]

Record_IpAddr(ip) == [tag |-> "IpAddr", ip |-> ip]
Record_MX(entries) == [tag |-> "MX", mx |-> entries]
Record_TXT(strings) == [tag |-> "TXT", txt |-> strings]

ResolveError_IO(e) == [tag |-> "IO", io |-> e]
ResolveError_NotResolved == [tag |-> "NotResolved"]

\* Result<T, E>; the payload field is named after T so that results of
\* different types are never equal
OkIp(ip) == [tag |-> "Ok", ip |-> ip]
OkRecords(records) == [tag |-> "Ok", records |-> records]
OkUnit == [tag |-> "Ok"]
Err(e) == [tag |-> "Err", err |-> e]
ErrUnit == [tag |-> "Err"]

IoErrors == {"ECONNREFUSED", "ETIMEDOUT"}

\* the records a backend answers with in this model
Records ==
    {Record_IpAddr(ip) : ip \in IpAddrs}
        \cup {Record_MX(<<PriorityEntry(10, IpAddr_V4("192.0.2.1"))>>)}
        \cup {Record_TXT(<<"v=spf1">>)}

\* the values of ResolveResult<Vec<Record>> with at most n records
ResolveManyResults(n) ==
    {Err(ResolveError_IO(e)) : e \in IoErrors}
        \cup {Err(ResolveError_NotResolved)}
        \cup {OkRecords(l) : l \in SeqsUpTo(Records, n)}

----------------------------------------------------------------------------
(* The default resolve(): the code after the resolve_many call *)

\* the closure of filter_map: Record::IpAddr(ip) => Some(ip), _ => None
IpOfRecord(record) ==
    IF record.tag = "IpAddr" THEN [tag |-> "Some", ip |-> record.ip] ELSE None

\* records.into_iter().filter_map(..): the addresses of the address records,
\* in the order of the list
RECURSIVE FilterMapIp(_)
FilterMapIp(records) ==
    IF records = <<>> THEN <<>>
    ELSE LET o == IpOfRecord(Head(records))
         IN  IF o.tag = "Some"
             THEN <<o.ip>> \o FilterMapIp(Tail(records))
             ELSE FilterMapIp(Tail(records))

\* Iterator::next on the filtered iterator
IterNext(it) == IF it = <<>> THEN None ELSE [tag |-> "Some", ip |-> Head(it)]

\* the conversion `?` applies to the error: From<ResolveError> for ResolveError
\* is the reflexive impl
FromResolveError(e) == e

\* mutant: the two query types in the other order
Resolver_queries_swapped == <<"A", "AAAA">>

\* [QueryType::AAAA, QueryType::A]
Resolver_queries == <<"AAAA", "A">>
AsyncResolver_queries == <<"AAAA", "A">>

\* mutant: takes the last address record instead of the first
Resolver_resolve_last(r) ==
    IF r.tag = "Err" THEN Err(FromResolveError(r.err))
    ELSE LET it == FilterMapIp(r.records)
         IN  IF it = <<>> THEN Err(ResolveError_NotResolved)
             ELSE OkIp(it[Len(it)])

\* mutant: looks at the first record only
Resolver_resolve_head(r) ==
    IF r.tag = "Err" THEN Err(FromResolveError(r.err))
    ELSE IF r.records # <<>> /\ Head(r.records).tag = "IpAddr"
         THEN OkIp(Head(r.records).ip)
         ELSE Err(ResolveError_NotResolved)

\* mutant: turns every failure of resolve_many into NotResolved
Resolver_resolve_swallow(r) ==
    IF r.tag = "Err" THEN Err(ResolveError_NotResolved)
    ELSE LET next == IterNext(FilterMapIp(r.records))
         IN  IF next.tag = "Some" THEN OkIp(next.ip)
             ELSE Err(ResolveError_NotResolved)

\* Resolver::resolve, given the value r its resolve_many call returned
Resolver_resolve(r) ==
    IF r.tag = "Err" THEN Err(FromResolveError(r.err))
    ELSE LET next == IterNext(FilterMapIp(r.records))
         IN  IF next.tag = "Some" THEN OkIp(next.ip)
             ELSE Err(ResolveError_NotResolved)

\* mutant: the suspend-capable form searches AAAA answers first
AsyncResolver_resolve_v6first(r) ==
    IF r.tag = "Err" THEN Err(FromResolveError(r.err))
    ELSE LET it == FilterMapIp(r.records)
             v6 == SelectSeq(it, LAMBDA ip : ip.family = "V6")
         IN  IF it = <<>> THEN Err(ResolveError_NotResolved)
             ELSE IF v6 # <<>> THEN OkIp(Head(v6)) ELSE OkIp(Head(it))

\* mutant: the suspend-capable form answers the unspecified address when
\* no address record was found
AsyncResolver_resolve_unspecified(r) ==
    IF r.tag = "Err" THEN Err(FromResolveError(r.err))
    ELSE LET next == IterNext(FilterMapIp(r.records))
         IN  IF next.tag = "Some" THEN OkIp(next.ip)
             ELSE OkIp(IpAddr_V6("::"))

\* AsyncResolver::resolve, given the value r its resolve_many call returned
AsyncResolver_resolve(r) ==
    IF r.tag = "Err" THEN Err(FromResolveError(r.err))
    ELSE LET next == IterNext(FilterMapIp(r.records))
         IN  IF next.tag = "Some" THEN OkIp(next.ip)
             ELSE Err(ResolveError_NotResolved)

\* the default hooks return Err(())
Resolver_clear_cache == ErrUnit
Resolver_reload_system_config == ErrUnit
AsyncResolver_clear_cache == ErrUnit
AsyncResolver_reload_system_config == ErrUnit

Hooks == {"clear_cache", "reload_system_config"}

HookResult(f, o) ==
    IF f = "blocking"
    THEN IF o = "clear_cache" THEN Resolver_clear_cache
         ELSE Resolver_reload_system_config
    ELSE IF o = "clear_cache" THEN AsyncResolver_clear_cache
         ELSE AsyncResolver_reload_system_config

BackendCall(method, queries) == [method |-> method, queries |-> queries]

----------------------------------------------------------------------------
(* State machine *)

Init ==
    /\ pc = [c \in Callers |-> "idle"]
    /\ op = [c \in Callers |-> "none"]
    /\ form = [c \in Callers |-> "none"]
    /\ calls = [c \in Callers |-> <<>>]
    /\ reply = [c \in Callers |-> None]
    /\ result = [c \in Callers |-> None]
    /\ mxpc = "start"
    /\ mxIn = <<>>
    /\ mxRec = None
    /\ mxOut = <<>>

\* a caller invokes Resolver::resolve: the thread builds the queries and
\* enters self.resolve_many(..)
Resolver_resolve_call(c) ==
    /\ pc[c] = "idle"
    /\ pc' = [pc EXCEPT ![c] = "awaiting"]
    /\ op' = [op EXCEPT ![c] = "resolve"]
    /\ form' = [form EXCEPT ![c] = "blocking"]
    /\ calls' = [calls EXCEPT ![c] = Append(@, BackendCall("resolve_many", Resolver_queries))]
    /\ UNCHANGED <<reply, result, mxVars>>

\* a caller invokes a method of AsyncResolver: this only creates the future
AsyncResolver_create(c, o) ==
    /\ pc[c] = "idle"
    /\ pc' = [pc EXCEPT ![c] = "created"]
    /\ op' = [op EXCEPT ![c] = o]
    /\ form' = [form EXCEPT ![c] = "async"]
    /\ UNCHANGED <<calls, reply, result, mxVars>>

\* first poll of the resolve() future: it builds the queries, calls
\* self.resolve_many(..) and awaits the returned future
AsyncResolver_resolve_poll(c) ==
    /\ pc[c] = "created"
    /\ op[c] = "resolve"
    /\ pc' = [pc EXCEPT ![c] = "awaiting"]
    /\ calls' = [calls EXCEPT ![c] = Append(@, BackendCall("resolve_many", AsyncResolver_queries))]
    /\ UNCHANGED <<op, form, reply, result, mxVars>>

\* the backend's resolve_many completes with some ResolveResult<Vec<Record>>
\* of at most n records
resolve_many_returns(c, n) ==
    /\ pc[c] = "awaiting"
    /\ \E r \in ResolveManyResults(n) : reply' = [reply EXCEPT ![c] = r]
    /\ pc' = [pc EXCEPT ![c] = "ready"]
    /\ UNCHANGED <<op, form, calls, result, mxVars>>

\* Resolver::resolve continues after resolve_many returned, and returns
Resolver_resolve_return(c) ==
    /\ pc[c] = "ready"
    /\ form[c] = "blocking"
    /\ result' = [result EXCEPT ![c] = Resolver_resolve(reply[c])]
    /\ pc' = [pc EXCEPT ![c] = "done"]
    /\ UNCHANGED <<op, form, calls, reply, mxVars>>

\* mutant: the result is computed from a buffer shared by all callers, which
\* holds the answer of any call that has one
AsyncResolver_resolve_resume_shared(c) ==
    /\ pc[c] = "ready"
    /\ form[c] = "async"
    /\ \E d \in Callers :
           /\ reply[d] # None
           /\ result' = [result EXCEPT ![c] = AsyncResolver_resolve(reply[d])]
    /\ pc' = [pc EXCEPT ![c] = "done"]
    /\ UNCHANGED <<op, form, calls, reply, mxVars>>

\* mutant: when no address record was found the future awaits a second
\* backend future instead of completing
AsyncResolver_resolve_resume_again(c) ==
    /\ pc[c] = "ready"
    /\ form[c] = "async"
    /\ IF AsyncResolver_resolve(reply[c]) = Err(ResolveError_NotResolved)
       THEN /\ pc' = [pc EXCEPT ![c] = "awaiting"]
            /\ reply' = [reply EXCEPT ![c] = None]
            /\ UNCHANGED result
       ELSE /\ pc' = [pc EXCEPT ![c] = "done"]
            /\ result' = [result EXCEPT ![c] = AsyncResolver_resolve(reply[c])]
            /\ UNCHANGED reply
    /\ UNCHANGED <<op, form, calls, mxVars>>

\* the resolve() future is polled after its resolve_many future completed,
\* and completes
AsyncResolver_resolve_resume(c) ==
    /\ pc[c] = "ready"
    /\ form[c] = "async"
    /\ result' = [result EXCEPT ![c] = AsyncResolver_resolve(reply[c])]
    /\ pc' = [pc EXCEPT ![c] = "done"]
    /\ UNCHANGED <<op, form, calls, reply, mxVars>>

\* mutant: the default hook of the blocking trait reports success
Resolver_hook_ok(c, o) ==
    /\ pc[c] = "idle"
    /\ o \in Hooks
    /\ pc' = [pc EXCEPT ![c] = "done"]
    /\ op' = [op EXCEPT ![c] = o]
    /\ form' = [form EXCEPT ![c] = "blocking"]
    /\ result' = [result EXCEPT ![c] = OkUnit]
    /\ UNCHANGED <<calls, reply, mxVars>>

\* a caller invokes Resolver::clear_cache or Resolver::reload_system_config
\* of a backend that does not override it
Resolver_hook(c, o) ==
    /\ pc[c] = "idle"
    /\ o \in Hooks
    /\ pc' = [pc EXCEPT ![c] = "done"]
    /\ op' = [op EXCEPT ![c] = o]
    /\ form' = [form EXCEPT ![c] = "blocking"]
    /\ result' = [result EXCEPT ![c] = HookResult("blocking", o)]
    /\ UNCHANGED <<calls, reply, mxVars>>

\* the future of AsyncResolver::clear_cache or ::reload_system_config of a
\* backend that does not override it is polled: it completes at once
AsyncResolver_hook_poll(c) ==
    /\ pc[c] = "created"
    /\ op[c] \in Hooks
    /\ pc' = [pc EXCEPT ![c] = "done"]
    /\ result' = [result EXCEPT ![c] = HookResult("async", op[c])]
    /\ UNCHANGED <<op, form, calls, reply, mxVars>>

\* the caller consumes the result; all values of the call are dropped
Return(c) ==
    /\ pc[c] = "done"
    /\ pc' = [pc EXCEPT ![c] = "idle"]
    /\ op' = [op EXCEPT ![c] = "none"]
    /\ form' = [form EXCEPT ![c] = "none"]
    /\ calls' = [calls EXCEPT ![c] = <<>>]
    /\ reply' = [reply EXCEPT ![c] = None]
    /\ result' = [result EXCEPT ![c] = None]
    /\ UNCHANGED mxVars

\* one step of caller c; n bounds the length of a resolve_many answer
Step(c, n) ==
    \/ Resolver_resolve_call(c)
    \/ \E o \in {"resolve"} \cup Hooks : AsyncResolver_create(c, o)
    \/ AsyncResolver_resolve_poll(c)
    \/ resolve_many_returns(c, n)
    \/ Resolver_resolve_return(c)
    \/ AsyncResolver_resolve_resume(c)
    \/ \E o \in Hooks : Resolver_hook(c, o)
    \/ AsyncResolver_hook_poll(c)
    \/ Return(c)

----------------------------------------------------------------------------
(* A client of the data types: builds a Record::MX and reads it back *)

Priorities == {-1, 0, 1}
MxPairs == Priorities \X IpAddrs

\* the client builds one PriorityEntry per (priority, value) pair and wraps
\* the vector in Record::MX
BuildMX(pairs) ==
    Record_MX([i \in 1..Len(pairs) |-> PriorityEntry(pairs[i][1], pairs[i][2])])

\* the client matches Record::MX(entries) and reads both fields of each entry
ReadMX(record) ==
    [i \in 1..Len(record.mx) |-> <<record.mx[i].priority, record.mx[i].value>>]

MX_build ==
    /\ mxpc = "start"
    /\ \E pairs \in SeqsUpTo(MxPairs, MaxEntries) :
           /\ mxIn' = pairs
           /\ mxRec' = BuildMX(pairs)
    /\ mxpc' = "built"
    /\ UNCHANGED <<resolverVars, mxOut>>

MX_read ==
    /\ mxpc = "built"
    /\ mxOut' = ReadMX(mxRec)
    /\ mxpc' = "read"
    /\ UNCHANGED <<resolverVars, mxIn, mxRec>>

MX_drop ==
    /\ mxpc = "read"
    /\ mxpc' = "start"
    /\ mxIn' = <<>>
    /\ mxRec' = None
    /\ mxOut' = <<>>
    /\ UNCHANGED resolverVars

----------------------------------------------------------------------------
(* Specifications *)

OthersIdle(c) == \A d \in Callers \ {c} : pc[d] = "idle"

\* callers use the resolver one at a time
Next ==
    \E c \in Callers :
        \/ OthersIdle(c) /\ Resolver_resolve_call(c)
        \/ OthersIdle(c) /\ \E o \in {"resolve"} \cup Hooks : AsyncResolver_create(c, o)
        \/ OthersIdle(c) /\ AsyncResolver_resolve_poll(c)
        \/ OthersIdle(c) /\ resolve_many_returns(c, MaxLen)
        \/ OthersIdle(c) /\ Resolver_resolve_return(c)
        \/ OthersIdle(c) /\ AsyncResolver_resolve_resume(c)
        \/ OthersIdle(c) /\ \E o \in Hooks : Resolver_hook(c, o)
        \/ OthersIdle(c) /\ AsyncResolver_hook_poll(c)
        \/ OthersIdle(c) /\ Return(c)

Spec == Init /\ [][Next]_vars

\* callers use the resolver concurrently: every interleaving of their steps
NextConc == \E c \in Callers : Step(c, MaxLenC)

SpecConc == Init /\ [][NextConc]_vars

\* a thread that is not blocked runs, and the executor polls a future whose
\* awaited future has completed
Fairness ==
    \A c \in Callers :
        /\ WF_vars(Resolver_resolve_return(c))
        /\ WF_vars(AsyncResolver_resolve_resume(c))

SpecFair == Init /\ [][Next]_vars /\ Fairness

NextMX == MX_build \/ MX_read \/ MX_drop

SpecMX == Init /\ [][NextMX]_vars

----------------------------------------------------------------------------
(* Properties *)

\* indices of the address records of a list
AddrIndices(l) == {i \in 1..Len(l) : l[i].tag = "IpAddr"}
MinOf(S) == CHOOSE x \in S : \A y \in S : x <= y
HasFamily(l, f) == \E i \in AddrIndices(l) : l[i].ip.family = f

\* caller c has completed a resolve()
Resolved(c) == pc[c] = "done" /\ op[c] = "resolve"
\* ... whose resolve_many call returned a list
ResolvedOk(c) == Resolved(c) /\ reply[c].tag = "Ok"

\* C1: if the list resolve_many returned holds an address record, resolve()
\* succeeds with the address of the address record of smallest index,
\* whatever its family and whatever precedes it.
C1_FirstAddressRecord ==
    \A c \in Callers :
        (ResolvedOk(c) /\ AddrIndices(reply[c].records) # {}) =>
            result[c] = OkIp(reply[c].records[MinOf(AddrIndices(reply[c].records))].ip)

\* a TXT or MX record, then an IPv4 address, then an IPv6 address
C1_Witness ==
    \E c \in Callers :
        /\ ResolvedOk(c)
        /\ Len(reply[c].records) = 3
        /\ reply[c].records[1].tag # "IpAddr"
        /\ reply[c].records[2] = Record_IpAddr(IpAddr_V4("192.0.2.1"))
        /\ reply[c].records[3] = Record_IpAddr(IpAddr_V6("::1"))
        /\ result[c] = OkIp(IpAddr_V4("192.0.2.1"))

\* C2: if resolve_many succeeded with a list holding no address record
\* (empty, or MX and TXT records only), resolve() fails with NotResolved.
C2_NoAddressNotResolved ==
    \A c \in Callers :
        (ResolvedOk(c) /\ AddrIndices(reply[c].records) = {}) =>
            result[c] = Err(ResolveError_NotResolved)

C2_Witness ==
    \E c \in Callers :
        /\ ResolvedOk(c)
        /\ form[c] = "async"
        /\ reply[c].records = <<Record_TXT(<<"v=spf1">>)>>
        /\ result[c] = Err(ResolveError_NotResolved)

\* C3: a failure of resolve_many is returned unchanged, with no further
\* backend call; resolve() returns an I/O error only if resolve_many
\* returned that error; the one failure resolve() adds is NotResolved, for
\* a list without address record.
C3_ErrorsPropagateUnchanged ==
    \A c \in Callers :
        Resolved(c) =>
            /\ reply[c].tag = "Err" => (result[c] = reply[c] /\ Len(calls[c]) = 1)
            /\ (result[c].tag = "Err" /\ result[c].err.tag = "IO") => reply[c] = result[c]
            /\ (result[c].tag = "Err" /\ reply[c].tag = "Ok") =>
                   /\ result[c] = Err(ResolveError_NotResolved)
                   /\ AddrIndices(reply[c].records) = {}

C3_Witness ==
    \E c \in Callers :
        /\ Resolved(c)
        /\ form[c] = "blocking"
        /\ reply[c] = Err(ResolveError_IO("ETIMEDOUT"))
        /\ result[c] = Err(ResolveError_IO("ETIMEDOUT"))
        /\ Len(calls[c]) = 1

\* the state of one caller
CallerState(c) == <<pc[c], op[c], form[c], calls[c], reply[c], result[c]>>

\* C4: a default clear_cache() or reload_system_config(), of either trait,
\* returns Err(()), never Ok, calls no backend method and changes nothing
\* but the state of its own call, whatever the other callers are doing.
C4_DefaultHooksFail ==
    /\ [](\A c \in Callers :
              (pc[c] = "done" /\ op[c] \in Hooks) =>
                  (result[c] = ErrUnit /\ calls[c] = <<>> /\ reply[c] = None))
    /\ [][\A c \in Callers :
              (op'[c] \in Hooks /\ pc'[c] = "done" /\ pc[c] # "done") =>
                  /\ calls' = calls
                  /\ reply' = reply
                  /\ mxVars' = mxVars
                  /\ \A d \in Callers \ {c} : CallerState(d)' = CallerState(d)]_vars

\* an async clear_cache and a blocking reload_system_config have completed
\* while another call is in flight or none is
C4_Witness ==
    \E c, d \in Callers :
        /\ pc[c] = "done" /\ op[c] = "clear_cache" /\ form[c] = "async"
        /\ pc[d] = "done" /\ op[d] = "reload_system_config" /\ form[d] = "blocking"
        /\ result[c] = ErrUnit /\ result[d] = ErrUnit

\* what the other trait's default method returns for the same backend outcome
OtherForm(f) == IF f = "blocking" THEN "async" ELSE "blocking"
ResolveOf(f, r) == IF f = "blocking" THEN Resolver_resolve(r) ELSE AsyncResolver_resolve(r)
QueriesOf(f) == IF f = "blocking" THEN Resolver_queries ELSE AsyncResolver_queries

\* C5: for the same outcome of resolve_many the default resolve() of one
\* trait issues the request and returns the result that the default resolve()
\* of the other trait issues and returns; likewise the default hooks.
C5_FormsAgree ==
    \A c \in Callers :
        /\ Resolved(c) =>
               /\ result[c] = ResolveOf(OtherForm(form[c]), reply[c])
               /\ calls[c] = <<BackendCall("resolve_many", QueriesOf(OtherForm(form[c])))>>
        /\ (pc[c] = "done" /\ op[c] \in Hooks) =>
               result[c] = HookResult(OtherForm(form[c]), op[c])

C5_Witness ==
    \E c \in Callers :
        /\ ResolvedOk(c)
        /\ form[c] = "async"
        /\ reply[c].records = <<Record_IpAddr(IpAddr_V4("192.0.2.1")),
                                Record_IpAddr(IpAddr_V6("::1"))>>
        /\ result[c] = OkIp(IpAddr_V4("192.0.2.1"))

\* C6 as stated: whenever the list holds an IPv6 address record resolve()
\* returns an IPv6 address, and it returns an IPv4 address only when the
\* list holds no IPv6 address record.
C6_Original ==
    \A c \in Callers :
        ResolvedOk(c) =>
            /\ HasFamily(reply[c].records, "V6") =>
                   (result[c].tag = "Ok" /\ result[c].ip.family = "V6")
            /\ (result[c].tag = "Ok" /\ result[c].ip.family = "V4") =>
                   ~HasFamily(reply[c].records, "V6")

\* no IPv4 address record precedes an IPv6 address record
InRequestOrder(l) ==
    \A i, j \in AddrIndices(l) :
        (l[i].ip.family = "V4" /\ l[j].ip.family = "V6") => j < i

\* C6 as amended: for a list in which no IPv4 address record precedes an
\* IPv6 address record, resolve() returns an IPv6 address whenever the
\* list holds an IPv6 address record and an IPv4 address only when it holds
\* none.
C6_PreferenceInRequestOrder ==
    \A c \in Callers :
        (ResolvedOk(c) /\ InRequestOrder(reply[c].records)) =>
            /\ HasFamily(reply[c].records, "V6") =>
                   (result[c].tag = "Ok" /\ result[c].ip.family = "V6")
            /\ (result[c].tag = "Ok" /\ result[c].ip.family = "V4") =>
                   ~HasFamily(reply[c].records, "V6")

C6_Witness ==
    \E c \in Callers :
        /\ ResolvedOk(c)
        /\ reply[c].records = <<Record_IpAddr(IpAddr_V6("::1")),
                                Record_IpAddr(IpAddr_V4("192.0.2.1"))>>
        /\ result[c] = OkIp(IpAddr_V6("::1"))

\* C7: the entries read back from a Record::MX are the (priority, value)
\* pairs it was built from, in the same order, none dropped or merged.
C7_MXRoundTrip ==
    /\ mxpc = "read" => mxOut = mxIn
    /\ mxpc \in {"built", "read"} =>
           /\ mxRec.tag = "MX"
           /\ Len(mxRec.mx) = Len(mxIn)
           /\ \A i \in 1..Len(mxIn) :
                  mxRec.mx[i].priority = mxIn[i][1] /\ mxRec.mx[i].value = mxIn[i][2]

\* unsorted priorities and a repeated entry
C7_Witness ==
    /\ mxpc = "read"
    /\ mxIn = << <<1, IpAddr_V4("192.0.2.1")>>, <<-1, IpAddr_V6("::1")>>,
                 <<1, IpAddr_V4("192.0.2.1")>> >>
    /\ mxOut = mxIn

\* C8: a default resolve() makes one backend call, resolve_many with the
\* queries AAAA, A in this order, once it has started running, and no
\* other call until it has returned, whatever resolve_many answered.
C8_OneResolveManyCall ==
    \A c \in Callers :
        /\ (op[c] = "resolve" /\ pc[c] \in {"awaiting", "ready", "done"}) =>
               calls[c] = <<BackendCall("resolve_many", <<"AAAA", "A">>)>>
        /\ (op[c] # "resolve" \/ pc[c] \in {"idle", "created"}) => calls[c] = <<>>

\* a resolve() that found no address has returned after a single call
C8_Witness ==
    \E c \in Callers :
        /\ ResolvedOk(c) /\ form[c] = "blocking"
        /\ AddrIndices(reply[c].records) = {}
        /\ result[c] = Err(ResolveError_NotResolved)
        /\ Len(calls[c]) = 1
        /\ calls[c][1].method = "resolve_many"

\* the result the contract assigns to an outcome of resolve_many
ExpectedResult(r) ==
    IF r.tag = "Err" THEN r
    ELSE IF AddrIndices(r.records) = {} THEN Err(ResolveError_NotResolved)
    ELSE OkIp(r.records[MinOf(AddrIndices(r.records))].ip)

\* C9: under every interleaving of concurrent callers, the result of each
\* resolve() is determined by the outcome of its own resolve_many call, and
\* a step of one call changes the state of no other call.
C9_CallsIndependent ==
    /\ [](\A c \in Callers : Resolved(c) => result[c] = ExpectedResult(reply[c]))
    /\ [][\A c, d \in Callers :
              (c # d /\ CallerState(c)' # CallerState(c)) =>
                  CallerState(d)' = CallerState(d)]_vars

\* two concurrent calls, one of each trait, with different answers
C9_Witness ==
    \E c, d \in Callers :
        /\ c # d
        /\ ResolvedOk(c) /\ form[c] = "async"
        /\ Resolved(d) /\ form[d] = "blocking"
        /\ reply[c] = OkRecords(<<Record_IpAddr(IpAddr_V6("::1"))>>)
        /\ reply[d] = Err(ResolveError_IO("ECONNREFUSED"))
        /\ result[c] = OkIp(IpAddr_V6("::1"))
        /\ result[d] = reply[d]

\* C10: once the resolve_many call of a suspend-capable resolve() has
\* completed, resolve() completes; and it completes only from the state in
\* which its resolve_many call has completed.
C10_PendingOnlyOnResolveMany ==
    /\ \A c \in Callers :
           (pc[c] = "ready" /\ form[c] = "async") ~> (pc[c] = "done")
    /\ [][\A c \in Callers :
              (pc'[c] = "done" /\ pc[c] # "done" /\ op'[c] = "resolve") =>
                  (pc[c] = "ready" /\ reply[c] # None)]_vars

C10_Witness ==
    \E c \in Callers :
        /\ Resolved(c)
        /\ form[c] = "async"
        /\ reply[c] = OkRecords(<<>>)
        /\ result[c] = Err(ResolveError_NotResolved)

====
